---- MODULE Spec2Model ----
(***************************************************************************)
(* go-upgrade-checker: the symbol correlation and definition-diff engine.  *)
(* Two programs live in the repository: main.go (function signatures) and  *)
(* the later symbol-based program (src/unnamed/part_000).  Go strings are  *)
(* modelled as sequences of one-character strings, so that Contains,       *)
(* Index, Split and the Trim functions are computed, not assumed.          *)
(***************************************************************************)
EXTENDS Integers, Sequences, FiniteSets, TLC

VARIABLES
  pc,             \* position of the run
  prog,           \* which program runs: "symbols" (part_000) or "functions" (main.go)
  projectIndex,   \* decoded index of the consumer project
  oldIndex,       \* decoded index of the dependency, old version
  newIndex,       \* decoded index of the dependency, new version
  usedSymbols,    \* part_000 main: usedSymbols (the usage record)
  newSymbols,     \* part_000 main: newSymbols
  added,          \* part_000 main: added
  removed,        \* part_000 main: removed
  usedFunctions,  \* main.go main: usedFunctions
  newFunctions,   \* main.go main: newFunctions
  changed,        \* main.go main: changed
  out,            \* the lines printed on standard output
  doc,            \* a documentation text handed to an extractor
  sig,            \* what the extractor returned
  err,            \* the error main stopped on
  tmp,            \* the temporary directories that exist
  deferred        \* main's deferred os.RemoveAll calls, last deferred first

indexVars == <<projectIndex, oldIndex, newIndex>>
symbolVars == <<usedSymbols, newSymbols, added, removed>>
functionVars == <<usedFunctions, newFunctions, changed>>
extractVars == <<doc, sig>>
runVars == <<err, tmp, deferred>>
vars == <<pc, prog, indexVars, symbolVars, functionVars, out, extractVars, runVars>>

\* ------------------------------------------------------------------ bounds
\* Longest documentation text, in lines, that the extractor is applied to.
MaxLines == 2
\* Longest definition list of one symbol in a symbol table.
MaxDefs == 2
\* Most occurrences in the consumer index.
MaxOccs == 2
\* Most declared symbols in a dependency index.
MaxSyms == 2

\* ------------------------------------------------------------- characters
NL == "\n"
\* the backquote character (a TLA+ string literal cannot hold it)
BQ == "bq"
Upper == {"A","B","C","D","E","F","G","H","I","J","K","L","M",
          "N","O","P","Q","R","S","T","U","V","W","X","Y","Z"}
Lower == {"a","b","c","d","e","f","g","h","i","j","k","l","m",
          "n","o","p","q","r","s","t","u","v","w","x","y","z"}
Digit == {"0","1","2","3","4","5","6","7","8","9"}

\* unicode.IsUpper on an ASCII byte
IsUpper(c) == c \in Upper

\* the regexp class \w
IsWord(c) == c \in Upper \cup Lower \cup Digit \cup {"_"}

\* the regexp class \s, and what strings.TrimSpace strips (ASCII)
IsSpace(c) == c \in {" ", "\t", "\n", "\r", "\f"}

\* ---------------------------------------------------------- package strings
\* s[n:]
Drop(s, n) == SubSeq(s, n + 1, Len(s))

\* strings.HasPrefix / strings.HasSuffix
HasPrefix(s, p) == Len(p) <= Len(s) /\ SubSeq(s, 1, Len(p)) = p
HasSuffix(s, p) == Len(p) <= Len(s) /\ SubSeq(s, Len(s) - Len(p) + 1, Len(s)) = p

\* strings.Index: the 0-based offset of the first occurrence of sub, or -1
Index(s, sub) ==
  LET hits == {i \in 0..(Len(s) - Len(sub)) : SubSeq(s, i + 1, i + Len(sub)) = sub}
  IN IF hits = {} THEN -1 ELSE CHOOSE i \in hits : \A j \in hits : i <= j

\* strings.Contains
Contains(s, sub) == Index(s, sub) >= 0

\* strings.Split with a non-empty separator
RECURSIVE Split(_, _)
Split(s, sep) ==
  LET i == Index(s, sep)
  IN IF i < 0 THEN <<s>>
     ELSE <<SubSeq(s, 1, i)>> \o Split(Drop(s, i + Len(sep)), sep)

\* strings.TrimPrefix / strings.TrimSuffix
TrimPrefix(s, p) == IF HasPrefix(s, p) THEN Drop(s, Len(p)) ELSE s
TrimSuffix(s, p) == IF HasSuffix(s, p) THEN SubSeq(s, 1, Len(s) - Len(p)) ELSE s

\* strings.TrimSpace
RECURSIVE TrimLeft(_)
TrimLeft(s) == IF s # <<>> /\ IsSpace(Head(s)) THEN TrimLeft(Tail(s)) ELSE s
RECURSIVE TrimRight(_)
TrimRight(s) ==
  IF s # <<>> /\ IsSpace(s[Len(s)]) THEN TrimRight(SubSeq(s, 1, Len(s) - 1)) ELSE s
TrimSpace(s) == TrimRight(TrimLeft(s))

\* ------------------------------------------------------------ string literals
Empty == <<>>
KwFunc == <<"f","u","n","c">>
KwFuncSp == <<"f","u","n","c"," ">>
Removed == <<"r","e","m","o","v","e","d">>
\* the 5 of funcDef[strings.Index(funcDef, "func ")+5:]
FuncSkip == 5

\* ------------------------------------------------- main.go: the extractor
extractExportedFunctionSignature(s) ==
  LET parts == Split(s, <<NL>>)
  IN IF Len(parts) < 2 THEN Empty
     ELSE LET funcDef == parts[2]
          IN IF ~Contains(funcDef, KwFunc) THEN Empty
             ELSE LET afterFunc == Drop(funcDef, Index(funcDef, KwFuncSp) + FuncSkip)
                      funcName == TrimSpace(Split(afterFunc, <<"(">>)[1])
                  IN IF Len(funcName) = 0 \/ ~IsUpper(funcName[1]) THEN Empty
                     ELSE funcDef

\* ------------------------------------------- part_000: the symbol extractor
extractSymbolDefinition(symbol) ==
  LET parts == Split(symbol, <<NL>>)
  IN IF Len(parts) < 2 THEN Empty ELSE parts[2]

\* ---------------------------------------------------- documentation texts
\* strings.Join(lines, "\n")
RECURSIVE Join(_)
Join(lines) ==
  IF Len(lines) = 0 THEN Empty
  ELSE IF Len(lines) = 1 THEN lines[1]
  ELSE lines[1] \o <<NL>> \o Join(Tail(lines))

Fence == <<BQ, BQ, BQ>>
FenceGo == <<BQ, BQ, BQ, "g", "o">>
KwType == <<"t","y","p","e"," ">>
KwVar == <<"v","a","r"," ">>
Recv == <<"(","r"," ","T",")"," ">>

\* names a declaration can carry: exported, unexported, and mixed
DeclNames == {<<"F">>, <<"g">>, <<"F","G">>, <<"g","F">>}
\* what follows the name
DeclTails == {<<"(",")">>, <<"(","a",")">>,
              <<" ","f","u","n","c","(","a",")">>, <<" ","i","n","t">>}

\* second lines of a hover text: functions, methods, types, variables
DeclLines ==
     {KwFuncSp \o n \o t : n \in DeclNames, t \in DeclTails}
  \cup {KwFuncSp \o Recv \o n \o t : n \in DeclNames, t \in DeclTails}
  \cup {KwType \o n \o t : n \in DeclNames, t \in DeclTails}
  \cup {KwVar \o n \o t : n \in DeclNames, t \in DeclTails}
  \cup {Empty, Fence, KwFunc \o <<"(",")">>}

\* texts of 1..MaxLines lines: a first line, a declaration line, closing lines
RECURSIVE TextsOf(_)
TextsOf(n) ==
  IF n = 1 THEN {<<l>> : l \in {FenceGo, KwFuncSp \o <<"F","(",")">>}}
  ELSE IF n = 2 THEN {t \o <<l>> : t \in TextsOf(1), l \in DeclLines}
  ELSE {t \o <<l>> : t \in TextsOf(n - 1), l \in {Fence, Empty}}

DocTexts == UNION {{Join(t) : t \in TextsOf(n)} : n \in 1..MaxLines}

\* ------------------------------------------------------------- idle parts
NoIndex == <<>>
NoMap == <<>>
IdleIndexes == projectIndex = NoIndex /\ oldIndex = NoIndex /\ newIndex = NoIndex
IdleSymbols == usedSymbols = NoMap /\ newSymbols = NoMap /\ added = NoMap /\ removed = NoMap
IdleFunctions == usedFunctions = {} /\ newFunctions = {} /\ changed = NoMap
IdleExtract == doc = Empty /\ sig = Empty
IdleOut == out = <<>>
NoErr == "nil"
IdleRun == err = NoErr /\ tmp = {} /\ deferred = <<>>

\* --------------------------------------------- specification: the extractors
InitExtract ==
  /\ pc = "start"
  /\ prog = "extract"
  /\ doc \in DocTexts
  /\ sig = Empty
  /\ IdleIndexes /\ IdleSymbols /\ IdleFunctions /\ IdleOut /\ IdleRun

\* main.go: funcSignature := extractExportedFunctionSignature(sym.Documentation[0])
ExtractExported ==
  /\ pc = "start"
  /\ sig' = extractExportedFunctionSignature(doc)
  /\ pc' = "exported"
  /\ UNCHANGED <<runVars, prog, indexVars, symbolVars, functionVars, out, doc>>

\* part_000: def := extractSymbolDefinition(sym.Documentation[0])
ExtractDefinition ==
  /\ pc = "start"
  /\ sig' = extractSymbolDefinition(doc)
  /\ pc' = "definition"
  /\ UNCHANGED <<runVars, prog, indexVars, symbolVars, functionVars, out, doc>>

NextExtract == ExtractExported \/ ExtractDefinition

SpecExtract == InitExtract /\ [][NextExtract]_vars

\* ------------------------------------------------------------------- maps
\* m[k] = v on a Go map
MapPut(m, k, v) == [x \in (DOMAIN m) \cup {k} |-> IF x = k THEN v ELSE m[x]]

\* The orders in which a range over a map with key set S can visit its keys:
\* Go leaves the order unspecified, so every permutation is possible.
RECURSIVE Orders(_)
Orders(S) ==
  IF S = {} THEN {<<>>}
  ELSE UNION {{<<x>> \o o : o \in Orders(S \ {x})} : x \in S}

InSeq(q, x) == \E i \in 1..Len(q) : q[i] = x
SetOf(q) == {q[i] : i \in 1..Len(q)}

\* --------------------------------------------- part_000: findChangedSymbols
\* cmp.Equal on two []string
cmpEqual(a, b) == a = b

\* Mutant of difference: compares the two lists position by position.
RECURSIVE PositionalDiff(_, _)
PositionalDiff(a, b) ==
  IF a = <<>> THEN <<>>
  ELSE (IF b = <<>> \/ Head(a) # Head(b) THEN <<Head(a)>> ELSE <<>>)
       \o PositionalDiff(Tail(a), IF b = <<>> THEN <<>> ELSE Tail(b))
differencePositional(a, b) ==
  [onlyInA |-> PositionalDiff(a, b), onlyInB |-> PositionalDiff(b, a)]

\* Mutant of difference: each slice is built by prepending, so it comes out in
\* the reverse of the order of its list.
RECURSIVE Reversed(_)
Reversed(q) == IF q = <<>> THEN <<>> ELSE Reversed(Tail(q)) \o <<Head(q)>>
differencePrepending(a, b) ==
  [onlyInA |-> Reversed(SelectSeq(a, LAMBDA item : ~InSeq(b, item))),
   onlyInB |-> Reversed(SelectSeq(b, LAMBDA item : ~InSeq(a, item)))]

\* difference: the items of a not in b, and the items of b not in a
difference(a, b) ==
  [onlyInA |-> SelectSeq(a, LAMBDA item : ~InSeq(b, item)),
   onlyInB |-> SelectSeq(b, LAMBDA item : ~InSeq(a, item))]

\* Mutant of FoundIn: the arguments of strings.Contains swapped.
FoundInSwapped(newSyms, oldSymbol) ==
  \E newFn \in DOMAIN newSyms : Contains(oldSymbol, newFn)

\* for newFn := range newSymbols { if strings.Contains(newFn, oldSymbol) {...; break} }
\* a search: its result is the same for every order of the range
FoundIn(newSyms, oldSymbol) ==
  \E newFn \in DOMAIN newSyms : Contains(newFn, oldSymbol)

\* Mutant of ChangedSymbolsBody: "else if" between the two difference tests.
ChangedSymbolsBodyElseIf(acc, oldSymbol, oldSyms, newSyms) ==
  LET exists == oldSymbol \in DOMAIN newSyms
      acc1 ==
        IF exists /\ ~(oldSyms[oldSymbol] = newSyms[oldSymbol])
        THEN LET d == [onlyInA |-> SelectSeq(oldSyms[oldSymbol],
                                    LAMBDA item : ~(\E i \in 1..Len(newSyms[oldSymbol]) :
                                                      newSyms[oldSymbol][i] = item)),
                       onlyInB |-> SelectSeq(newSyms[oldSymbol],
                                    LAMBDA item : ~(\E i \in 1..Len(oldSyms[oldSymbol]) :
                                                      oldSyms[oldSymbol][i] = item))]
             IN IF Len(d.onlyInA) > 0
                THEN [acc EXCEPT !.removed = MapPut(acc.removed, oldSymbol, d.onlyInA[1])]
                ELSE IF Len(d.onlyInB) > 0
                THEN [acc EXCEPT !.added = MapPut(acc.added, oldSymbol, d.onlyInB[1])]
                ELSE acc
        ELSE acc
  IN IF ~(\E newFn \in DOMAIN newSyms : Contains(newFn, oldSymbol))
     THEN [acc1 EXCEPT !.removed = MapPut(acc1.removed, oldSymbol, Removed)]
     ELSE acc1

\* one iteration of the loop over oldSymbols; acc holds the maps added, removed
ChangedSymbolsBody(acc, oldSymbol, oldSyms, newSyms) ==
  LET oldSymbolDefs == oldSyms[oldSymbol]
      exists == oldSymbol \in DOMAIN newSyms
      acc1 ==
        IF exists /\ ~cmpEqual(oldSymbolDefs, newSyms[oldSymbol])
        THEN LET d == difference(oldSymbolDefs, newSyms[oldSymbol])
                 r == IF Len(d.onlyInA) > 0
                      THEN MapPut(acc.removed, oldSymbol, d.onlyInA[1])
                      ELSE acc.removed
                 a == IF Len(d.onlyInB) > 0
                      THEN MapPut(acc.added, oldSymbol, d.onlyInB[1])
                      ELSE acc.added
             IN [added |-> a, removed |-> r]
        ELSE acc
  IN IF ~FoundIn(newSyms, oldSymbol)
     THEN [acc1 EXCEPT !.removed = MapPut(acc1.removed, oldSymbol, Removed)]
     ELSE acc1

\* the loop, visiting the keys of oldSymbols in the given order
RECURSIVE ChangedSymbolsLoop(_, _, _, _)
ChangedSymbolsLoop(acc, order, oldSyms, newSyms) ==
  IF order = <<>> THEN acc
  ELSE ChangedSymbolsLoop(ChangedSymbolsBody(acc, Head(order), oldSyms, newSyms),
                          Tail(order), oldSyms, newSyms)

\* Mutant of findChangedSymbols: found is declared before the loop over
\* oldSymbols and never reset.
RECURSIVE StickyFoundLoop(_, _, _, _, _)
StickyFoundLoop(acc, found, order, oldSyms, newSyms) ==
  IF order = <<>> THEN acc
  ELSE LET k == Head(order)
           differs == k \in DOMAIN newSyms /\ oldSyms[k] # newSyms[k]
           onlyOld == IF differs
                      THEN SelectSeq(oldSyms[k], LAMBDA x : x \notin SetOf(newSyms[k]))
                      ELSE <<>>
           onlyNew == IF differs
                      THEN SelectSeq(newSyms[k], LAMBDA x : x \notin SetOf(oldSyms[k]))
                      ELSE <<>>
           found1 == found \/ \E newFn \in DOMAIN newSyms : Contains(newFn, k)
           r1 == IF Len(onlyOld) > 0 THEN MapPut(acc.removed, k, onlyOld[1])
                 ELSE acc.removed
           a1 == IF Len(onlyNew) > 0 THEN MapPut(acc.added, k, onlyNew[1])
                 ELSE acc.added
           r2 == IF ~found1 THEN MapPut(r1, k, Removed) ELSE r1
       IN StickyFoundLoop([added |-> a1, removed |-> r2], found1, Tail(order),
                          oldSyms, newSyms)
findChangedSymbolsStickyFound(oldSyms, newSyms, order) ==
  StickyFoundLoop([added |-> NoMap, removed |-> NoMap], FALSE, order, oldSyms, newSyms)

findChangedSymbols(oldSyms, newSyms, order) ==
  ChangedSymbolsLoop([added |-> NoMap, removed |-> NoMap], order, oldSyms, newSyms)

\* ------------------------------------------- main.go: findChangedFunctions
None == <<"none">>

\* strings.TrimPrefix(strings.Split(strings.TrimSpace(fn), "(")[0], "func ")
FnName(fn) == TrimPrefix(Split(TrimSpace(fn), <<"(">>)[1], KwFuncSp)

\* The first loop over newFunctions stops at the first key whose name is that of
\* usedFn.  The range order is unspecified, so it can stop at any such key:
\* a choice of one per used function, None where there is no such key.
FirstHits(usedFns, newFns) ==
  {f \in [usedFns -> newFns \cup {None}] :
     \A u \in usedFns :
       LET hits == {n \in newFns : FnName(n) = FnName(u)}
       IN IF hits = {} THEN f[u] = None ELSE f[u] \in hits}

\* Mutant of ChangedEntry: the removal search looks for the whole used
\* signature instead of the function name.
ChangedEntryWholeSignature(usedFn, newFns, hit) ==
  LET first == IF hit # None /\ usedFn # hit THEN hit ELSE None
      found == \E newFn \in newFns : Contains(newFn, usedFn)
  IN IF ~found THEN Removed ELSE first

\* what one iteration of the loop over usedFunctions leaves in changed[usedFn]
ChangedEntry(usedFn, newFns, hit) ==
  LET usedFnName == FnName(usedFn)
      first == IF hit # None /\ usedFn # hit THEN hit ELSE None
      found == \E newFn \in newFns : Contains(newFn, usedFnName)
  IN IF ~found THEN Removed ELSE first

findChangedFunctions(usedFns, newFns, hits) ==
  LET keys == {u \in usedFns : ChangedEntry(u, newFns, hits[u]) # None}
  IN [u \in keys |-> ChangedEntry(u, newFns, hits[u])]

\* ------------------------------------------------ tables the differs take
SymKeys == {<<"F">>, <<"F","G">>}
Defs == {KwFuncSp \o <<"F","(",")">>, KwFuncSp \o <<"F","(","a",")">>}
DefLists == UNION {[1..n -> Defs] : n \in 1..MaxDefs}
\* a table of one key can also hold a third definition, so that a difference
\* can have more than one element
WideDefs == Defs \cup {KwFuncSp \o <<"F","(","b",")">>}
WideDefLists == UNION {[1..n -> WideDefs] : n \in 1..MaxDefs}
SymbolTables ==
  UNION {[K -> DefLists] : K \in SUBSET SymKeys}
  \cup {[k \in {<<"F">>} |-> defs] : defs \in WideDefLists}

Signatures ==
  {KwFuncSp \o n \o t : n \in {<<"F">>, <<"F","G">>}, t \in {<<"(",")">>, <<"(","a",")">>}}
  \cup {KwFuncSp \o <<"H","(",")">>}

\* ------------------------------------------------- steps of the two mains
\* part_000 main: added, removed := findChangedSymbols(usedSymbols, newSymbols)
ChangedSymbolsStep(from, to) ==
  /\ pc = from
  /\ prog = "symbols"
  /\ \E order \in Orders(DOMAIN usedSymbols) :
       LET res == findChangedSymbols(usedSymbols, newSymbols, order)
       IN added' = res.added /\ removed' = res.removed
  /\ pc' = to
  /\ UNCHANGED <<runVars, prog, indexVars, usedSymbols, newSymbols, functionVars, out, extractVars>>

\* main.go main: changed := findChangedFunctions(usedFunctions, newFunctions)
ChangedFunctionsStep(from, to) ==
  /\ pc = from
  /\ prog = "functions"
  /\ \E hits \in FirstHits(usedFunctions, newFunctions) :
       changed' = findChangedFunctions(usedFunctions, newFunctions, hits)
  /\ pc' = to
  /\ UNCHANGED <<runVars, prog, indexVars, symbolVars, usedFunctions, newFunctions, out, extractVars>>

\* ------------------------------------------- specification: the two differs
InitDiff ==
  /\ pc = "start"
  /\ prog \in {"symbols", "functions"}
  /\ IF prog = "symbols"
     THEN /\ usedSymbols \in SymbolTables
          /\ newSymbols \in SymbolTables
          /\ usedFunctions = {} /\ newFunctions = {}
     ELSE /\ usedFunctions \in SUBSET Signatures
          /\ newFunctions \in SUBSET Signatures
          /\ usedSymbols = NoMap /\ newSymbols = NoMap
  /\ added = NoMap /\ removed = NoMap /\ changed = NoMap
  /\ IdleIndexes /\ IdleExtract /\ IdleOut /\ IdleRun

DiffSymbols == ChangedSymbolsStep("start", "diffed")
DiffFunctions == ChangedFunctionsStep("start", "diffed")

NextDiff == DiffSymbols \/ DiffFunctions

SpecDiff == InitDiff /\ [][NextDiff]_vars

\* ------------------------------------- part_000: the descriptor parser
\* the smallest position >= from that holds c, or 0
NextAt(s, c, from) ==
  LET hits == {i \in from..Len(s) : s[i] = c}
  IN IF hits = {} THEN 0 ELSE CHOOSE i \in hits : \A j \in hits : i <= j

\* A match of the regexp  `[^`]+`(/[^\s`]+?\.)  that starts at position i:
\* the closing backquote is the next one, the lazy class stops at the first dot
\* that follows at least one character.
ClosingAt(s, i) == NextAt(s, BQ, i + 1)
DotAt(s, i) == NextAt(s, ".", ClosingAt(s, i) + 3)
MatchesAt(s, i) ==
  /\ s[i] = BQ
  /\ ClosingAt(s, i) > i + 1
  /\ ClosingAt(s, i) + 1 <= Len(s)
  /\ s[ClosingAt(s, i) + 1] = "/"
  /\ DotAt(s, i) > 0
  /\ \A q \in (ClosingAt(s, i) + 2)..(DotAt(s, i) - 1) : ~IsSpace(s[q]) /\ s[q] # BQ

\* re.FindAllStringSubmatch(symbol, -1): the group of the leftmost match, which
\* is the one the loop returns on; None without a match
FirstSubmatch(s) ==
  LET starts == {i \in 1..Len(s) : MatchesAt(s, i)}
  IN IF starts = {} THEN None
     ELSE LET i == CHOOSE x \in starts : \A y \in starts : x <= y
          IN SubSeq(s, ClosingAt(s, i) + 1, DotAt(s, i))

determineSymbolType(symbol) ==
  IF Contains(symbol, <<"(",")">>) THEN "function"
  ELSE IF Contains(symbol, <<"#">>) THEN "type"
  ELSE "constant or variable"

extractSymbolsFromOccurrence(symbol) ==
  LET m == FirstSubmatch(symbol)
  IN IF m = None THEN [val |-> Empty, typ |-> ""]
     ELSE LET symbolType == determineSymbolType(m)
          IN IF symbolType = "function"
             THEN [val |-> TrimSuffix(TrimPrefix(m, <<"/">>), <<"(",")",".">>),
                   typ |-> symbolType]
             ELSE [val |-> TrimSuffix(TrimPrefix(m, <<"/">>), <<".">>),
                   typ |-> symbolType]

\* ------------------------------------------------ decoded indexes (scip.Index)
\* for _, doc := range index.Documents { for _, occ := range doc.Occurrences
RECURSIVE Occurrences(_)
Occurrences(index) ==
  IF index = <<>> THEN <<>> ELSE Head(index).Occurrences \o Occurrences(Tail(index))

\* for _, doc := range index.Documents { for _, sym := range doc.Symbols
RECURSIVE Symbols(_)
Symbols(index) ==
  IF index = <<>> THEN <<>> ELSE Head(index).Symbols \o Symbols(Tail(index))

\* m[k] = append(m[k], v)
MapAppend(m, k, v) == MapPut(m, k, IF k \in DOMAIN m THEN Append(m[k], v) ELSE <<v>>)

\* --------------------------------------------- part_000: findUsedSymbols
\* the first loop: the candidates, from the occurrences of the consumer index
RECURSIVE UsedCandidates(_, _, _)
UsedCandidates(m, occs, moduleName) ==
  IF occs = <<>> THEN m
  ELSE LET occ == Head(occs)
           r == extractSymbolsFromOccurrence(occ.Symbol)
           m1 ==
             IF Contains(occ.Symbol, moduleName) /\ r.val # Empty
             THEN IF r.typ = "type"
                  THEN LET val == Split(r.val, <<"#">>)[1]
                           field == IF Len(Split(val, <<".">>)) > 1
                                    THEN Split(val, <<".">>)[2]
                                    ELSE r.val
                       IN MapAppend(m, val, field)
                  ELSE MapAppend(m, r.val, Empty)
             ELSE m
       IN UsedCandidates(m1, Tail(occs), moduleName)

\* the loop over the declared symbols of a dependency index: the definition
\* table (the second loop of findUsedSymbols, and the loop of getAvailableSymbols)
RECURSIVE DefinitionTable(_, _)
DefinitionTable(m, syms) ==
  IF syms = <<>> THEN m
  ELSE LET sym == Head(syms)
           r == extractSymbolsFromOccurrence(sym.Symbol)
           def == extractSymbolDefinition(sym.Documentation[1])
           m1 ==
             IF r.val # Empty /\ Len(sym.Documentation) > 0 /\ def # Empty
             THEN IF r.typ = "type"
                  THEN IF Len(Split(r.val, <<"#">>)) > 1
                       THEN MapAppend(m, Split(r.val, <<"#">>)[1], def)
                       ELSE m
                  ELSE MapAppend(m, r.val, def)
             ELSE m
       IN DefinitionTable(m1, Tail(syms))

\* The orders of the nested ranges of the third loop: the candidates k in some
\* order, and for each k the old table's keys j in an order of their own.
PairOrders(K, J) ==
  UNION {{[ks |-> ko, js |-> f] : f \in [K -> Orders(J)]} : ko \in Orders(K)}

\* Mutant of CorrelateInner: the old table's key has to equal the candidate.
RECURSIVE CorrelateInnerExact(_, _, _, _)
CorrelateInnerExact(resultMap, k, js, oldTable) ==
  IF js = <<>> THEN resultMap
  ELSE CorrelateInnerExact(IF Head(js) = k
                           THEN MapPut(resultMap, Head(js), oldTable[Head(js)])
                           ELSE resultMap,
                           k, Tail(js), oldTable)

\* for j, v := range oldModuleUsedSymbols { if strings.Contains(j, k) { resultMap[j] = v } }
RECURSIVE CorrelateInner(_, _, _, _)
CorrelateInner(resultMap, k, js, oldTable) ==
  IF js = <<>> THEN resultMap
  ELSE CorrelateInner(IF Contains(Head(js), k)
                      THEN MapPut(resultMap, Head(js), oldTable[Head(js)])
                      ELSE resultMap,
                      k, Tail(js), oldTable)

\* for k := range usedSymbols { ... }
RECURSIVE CorrelateOuter(_, _, _, _)
CorrelateOuter(resultMap, ks, inner, oldTable) ==
  IF ks = <<>> THEN resultMap
  ELSE CorrelateOuter(CorrelateInner(resultMap, Head(ks), inner[Head(ks)], oldTable),
                      Tail(ks), inner, oldTable)

\* the third loop, for the candidates and the old table of the first two
Correlate(candidates, oldTable, order) ==
  CorrelateOuter(NoMap, order.ks, order.js, oldTable)

findUsedSymbols(index, oldModuleIndex, moduleName, order) ==
  Correlate(UsedCandidates(NoMap, Occurrences(index), moduleName),
            DefinitionTable(NoMap, Symbols(oldModuleIndex)),
            order)

\* the orders findUsedSymbols can range in, for these indexes
UsedSymbolOrders(index, oldModuleIndex, moduleName) ==
  PairOrders(DOMAIN UsedCandidates(NoMap, Occurrences(index), moduleName),
             DOMAIN DefinitionTable(NoMap, Symbols(oldModuleIndex)))

getAvailableSymbols(index) == DefinitionTable(NoMap, Symbols(index))

\* --------------------------------------------------- part_000 main: report
LineChanged == <<"T","h","e"," ","f","o","l","l","o","w","i","n","g"," ","s","y","m","b","o","l","s"," ","h","a","v","e"," ","b","e","e","n"," ","c","h","a","n","g","e","d"," ","o","r"," ","r","e","m","o","v","e","d",":">>
LineAdded == <<"A","d","d","e","d",":">>
LineRemoved == <<"R","e","m","o","v","e","d",":">>
LineNone == <<"N","o"," ","b","r","e","a","k","i","n","g"," ","c","h","a","n","g","e","s"," ","d","e","t","e","c","t","e","d",".">>

\* "- " + sym + " -> " + newSym, for the keys of m in the given order
RECURSIVE ReportLines(_, _)
ReportLines(m, order) ==
  IF order = <<>> THEN <<>>
  ELSE <<(<<"-"," ">> \o Head(order) \o <<" ","-",">"," ">> \o m[Head(order)])>>
       \o ReportLines(m, Tail(order))

Report(addedMap, removedMap, addedOrder, removedOrder) ==
  <<Empty>> \o
  (IF Cardinality(DOMAIN addedMap) > 0 \/ Cardinality(DOMAIN removedMap) > 0
   THEN <<LineChanged, LineAdded>> \o ReportLines(addedMap, addedOrder)
        \o <<LineRemoved>> \o ReportLines(removedMap, removedOrder)
   ELSE <<LineNone>>)

\* ------------------------------------------------------ the three indexes
\* --module: the module path of the dependency
ModuleName == <<"m">>
OtherModule == <<"o">>

\* a symbol descriptor: scheme, package and version, then `import path`/tail
Descriptor(pkg, ver, tail) ==
  <<"s"," ">> \o pkg \o <<" ">> \o ver \o <<" ", BQ>> \o pkg \o <<BQ, "/">> \o tail

OldVersion == <<"1">>
NewVersion == <<"2">>

TailF == <<"F","(",")",".">>
TailFG == <<"F","G","(",")",".">>
TailgF == <<"g","F","(",")",".">>
TailField == <<"T","#","x",".">>
TailType == <<"T","#">>

\* what the consumer project can refer to: a function of the dependency, a
\* field of one of its types, the type itself, a function of another module
OccSymbols ==
  <<[Symbol |-> Descriptor(ModuleName, OldVersion, TailF)],
    [Symbol |-> Descriptor(ModuleName, OldVersion, TailField)],
    [Symbol |-> Descriptor(ModuleName, OldVersion, TailType)],
    [Symbol |-> Descriptor(OtherModule, OldVersion, TailFG)]>>

Hover(line) == FenceGo \o <<NL>> \o line

\* what both versions of the dependency can declare: F, the unexported gF, a
\* field of the type T, and a symbol without documentation
CommonSymbols(ver) ==
  <<[Symbol |-> Descriptor(ModuleName, ver, TailF),
    Documentation |-> <<Hover(KwFuncSp \o <<"F","(",")">>)>>],
   [Symbol |-> Descriptor(ModuleName, ver, TailgF),
    Documentation |-> <<Hover(KwFuncSp \o <<"g","F","(",")">>)>>],
   [Symbol |-> Descriptor(ModuleName, ver, TailField),
    Documentation |-> <<Hover(<<"x"," ","i","n","t">>)>>],
   [Symbol |-> Descriptor(ModuleName, ver, TailF),
    Documentation |-> <<>>]>>

\* the old version also declares FG; the new version can declare F with
\* another signature
OldSymbols ==
  CommonSymbols(OldVersion)
  \o <<[Symbol |-> Descriptor(ModuleName, OldVersion, TailFG),
        Documentation |-> <<Hover(KwFuncSp \o <<"F","G","(",")">>)>>]>>
NewSymbols ==
  CommonSymbols(NewVersion)
  \o <<[Symbol |-> Descriptor(ModuleName, NewVersion, TailF),
        Documentation |-> <<Hover(KwFuncSp \o <<"F","(","a",")">>)>>]>>

\* the lists that keep at most n items of q, in the order of q
RECURSIVE SubLists(_, _)
SubLists(q, n) ==
  IF n = 0 \/ q = <<>> THEN {<<>>}
  ELSE SubLists(Tail(q), n)
       \cup {<<Head(q)>> \o r : r \in SubLists(Tail(q), n - 1)}

\* an index of one document, or of two when it holds more than one item
ConsumerIndex(occs) ==
  IF Len(occs) <= 1 THEN <<[Occurrences |-> occs, Symbols |-> <<>>]>>
  ELSE <<[Occurrences |-> <<Head(occs)>>, Symbols |-> <<>>],
         [Occurrences |-> Tail(occs), Symbols |-> <<>>]>>
DependencyIndex(syms) ==
  IF Len(syms) <= 1 THEN <<[Occurrences |-> <<>>, Symbols |-> syms]>>
  ELSE <<[Occurrences |-> <<>>, Symbols |-> <<Head(syms)>>],
         [Occurrences |-> <<>>, Symbols |-> Tail(syms)]>>

ConsumerIndexes == {ConsumerIndex(q) : q \in SubLists(OccSymbols, MaxOccs)}
OldIndexes == {DependencyIndex(q) : q \in SubLists(OldSymbols, MaxSyms)}
NewIndexes == {DependencyIndex(q) : q \in SubLists(NewSymbols, MaxSyms)}

\* ------------------------------------ specification: the symbol program
\* the temporary directories of a run
ProjectDir == "project index"
RepoDir == "repo clone"
OldDir == "old index"
NewDir == "new index"

\* log.Fatalf(...): the message is logged and os.Exit(1) ends the process, so
\* the deferred calls of main do not run
Fatalf(e) ==
  /\ pc' = "fatal"
  /\ err' = e

\* defer os.RemoveAll(dir)
Defer(dir) == deferred' = <<dir>> \o deferred

Init ==
  /\ pc = "start"
  /\ prog = "symbols"
  /\ IdleIndexes /\ IdleSymbols /\ IdleFunctions /\ IdleExtract /\ IdleOut /\ IdleRun

\* projectIndexPath, err := generateScipIndex(projectPath), scip-go succeeding
GenerateScipIndex ==
  /\ pc = "start"
  /\ prog = "symbols"
  /\ projectIndex' \in ConsumerIndexes
  /\ tmp' = tmp \cup {ProjectDir}
  /\ Defer(ProjectDir)
  /\ pc' = "project indexed"
  /\ UNCHANGED <<prog, oldIndex, newIndex, symbolVars, functionVars, out, extractVars, err>>

\* generateScipIndex fails: no directory was made, or scip-go failed and the
\* directory was removed; os.RemoveAll("") in main removes nothing
GenerateScipIndexFails ==
  /\ pc = "start"
  /\ prog = "symbols"
  /\ Fatalf("Failed to generate SCIP index for my module")
  /\ UNCHANGED <<prog, indexVars, symbolVars, functionVars, out, extractVars, tmp, deferred>>

\* repoDir, err := os.MkdirTemp("", "repo-clone-*")
MkdirTempRepo ==
  /\ pc = "project indexed"
  /\ tmp' = tmp \cup {RepoDir}
  /\ Defer(RepoDir)
  /\ pc' = "repo dir"
  /\ UNCHANGED <<prog, indexVars, symbolVars, functionVars, out, extractVars, err>>

MkdirTempRepoFails ==
  /\ pc = "project indexed"
  /\ Fatalf("Failed to create temp directory")
  /\ UNCHANGED <<prog, indexVars, symbolVars, functionVars, out, extractVars, tmp, deferred>>

\* gitCloneCmd.Run()
GitClone ==
  /\ pc = "repo dir"
  /\ pc' = "cloned"
  /\ UNCHANGED <<prog, indexVars, symbolVars, functionVars, out, extractVars, runVars>>

\* the clone fails: os.RemoveAll(repoDir), then log.Fatalf
GitCloneFails ==
  /\ pc = "repo dir"
  /\ tmp' = tmp \ {RepoDir}
  /\ Fatalf("Failed to clone repository")
  /\ UNCHANGED <<prog, indexVars, symbolVars, functionVars, out, extractVars, deferred>>

\* oldModuleIndexPath, err := generateIndexForVersion(repoDir, oldVersion)
GenerateOldIndex ==
  /\ pc = "cloned"
  /\ oldIndex' \in OldIndexes
  /\ tmp' = tmp \cup {OldDir}
  /\ Defer(OldDir)
  /\ pc' = "old indexed"
  /\ UNCHANGED <<prog, projectIndex, newIndex, symbolVars, functionVars, out, extractVars, err>>

\* generateIndexForVersion fails (checkout, MkdirTemp, or scip-go with its
\* directory removed) and returns "": os.RemoveAll("") removes nothing
GenerateOldIndexFails ==
  /\ pc = "cloned"
  /\ Fatalf("Failed to generate index for old version")
  /\ UNCHANGED <<prog, indexVars, symbolVars, functionVars, out, extractVars, tmp, deferred>>

\* newModuleIndexPath, err := generateIndexForVersion(repoDir, newVersion)
GenerateNewIndex ==
  /\ pc = "old indexed"
  /\ newIndex' \in NewIndexes
  /\ tmp' = tmp \cup {NewDir}
  /\ Defer(NewDir)
  /\ pc' = "indexed"
  /\ UNCHANGED <<prog, projectIndex, oldIndex, symbolVars, functionVars, out, extractVars, err>>

GenerateNewIndexFails ==
  /\ pc = "old indexed"
  /\ Fatalf("Failed to generate index for new version")
  /\ UNCHANGED <<prog, indexVars, symbolVars, functionVars, out, extractVars, tmp, deferred>>

\* usedSymbols, err := findUsedSymbols(projectIndexPath, oldModuleIndexPath, module)
FindUsedSymbols ==
  /\ pc = "indexed"
  /\ prog = "symbols"
  /\ LET candidates == UsedCandidates(NoMap, Occurrences(projectIndex), ModuleName)
         oldTable == DefinitionTable(NoMap, Symbols(oldIndex))
     IN \E order \in PairOrders(DOMAIN candidates, DOMAIN oldTable) :
          usedSymbols' = Correlate(candidates, oldTable, order)
  /\ pc' = "used"
  /\ UNCHANGED <<runVars, prog, indexVars, newSymbols, added, removed, functionVars, out,
                 extractVars>>

\* the errors findUsedSymbols returns, with a nil map
UsedSymbolsErrors ==
  {"failed to read user index file", "failed to unmarshal user index",
   "failed to read old module index file", "failed to unmarshal old module index"}

\* findUsedSymbols returns nil, err; main: log.Fatalf("Failed to find used symbols")
FindUsedSymbolsFails ==
  /\ pc = "indexed"
  /\ prog = "symbols"
  /\ \E e \in UsedSymbolsErrors : Fatalf(e)
  /\ UNCHANGED <<prog, indexVars, symbolVars, functionVars, out, extractVars, tmp, deferred>>

\* newSymbols, err := getAvailableSymbols(newModuleIndexPath)
GetAvailableSymbols ==
  /\ pc = "used"
  /\ prog = "symbols"
  /\ newSymbols' = getAvailableSymbols(newIndex)
  /\ pc' = "available"
  /\ UNCHANGED <<runVars, prog, indexVars, usedSymbols, added, removed, functionVars, out,
                 extractVars>>

\* the errors getAvailableSymbols returns, with a nil map
AvailableSymbolsErrors == {"failed to read index file", "failed to unmarshal index"}

\* Mutant of GetAvailableSymbolsFails: main logs the error and goes on with
\* the nil table.
GetAvailableSymbolsFailsLogged ==
  /\ pc = "used"
  /\ prog = "symbols"
  /\ \E e \in AvailableSymbolsErrors : pc' = "available" /\ err' = e
  /\ UNCHANGED <<prog, indexVars, symbolVars, functionVars, out, extractVars, tmp, deferred>>

\* getAvailableSymbols returns nil, err; main: log.Fatalf
GetAvailableSymbolsFails ==
  /\ pc = "used"
  /\ prog = "symbols"
  /\ \E e \in AvailableSymbolsErrors : Fatalf(e)
  /\ UNCHANGED <<prog, indexVars, symbolVars, functionVars, out, extractVars, tmp, deferred>>

\* added, removed := findChangedSymbols(usedSymbols, newSymbols)
FindChangedSymbols == ChangedSymbolsStep("available", "diffed")

\* the fmt.Println calls that end main
PrintReport ==
  /\ pc = "diffed"
  /\ prog = "symbols"
  /\ \E ao \in Orders(DOMAIN added), ro \in Orders(DOMAIN removed) :
       out' = Report(added, removed, ao, ro)
  /\ pc' = "done"
  /\ UNCHANGED <<runVars, prog, indexVars, symbolVars, functionVars, extractVars>>

\* main returns: the deferred os.RemoveAll calls run, last deferred first
ReturnFromMain ==
  /\ pc = "done"
  /\ prog = "symbols"
  /\ tmp' = tmp \ SetOf(deferred)
  /\ deferred' = <<>>
  /\ pc' = "exited"
  /\ UNCHANGED <<prog, indexVars, symbolVars, functionVars, out, extractVars, err>>

Next ==
  \/ GenerateScipIndex \/ GenerateScipIndexFails
  \/ MkdirTempRepo \/ MkdirTempRepoFails
  \/ GitClone \/ GitCloneFails
  \/ GenerateOldIndex \/ GenerateOldIndexFails
  \/ GenerateNewIndex \/ GenerateNewIndexFails
  \/ FindUsedSymbols \/ FindUsedSymbolsFails
  \/ GetAvailableSymbols \/ GetAvailableSymbolsFails
  \/ FindChangedSymbols \/ PrintReport \/ ReturnFromMain

Spec == Init /\ [][Next]_vars

\* ---------------------------------- specification: the function program
\* regexp \w+\(\)\. : the positions where "()." follows a word character
CallAts(s) ==
  {j \in 2..(Len(s) - 2) :
     /\ SubSeq(s, j, j + 2) = <<"(",")",".">>
     /\ IsWord(s[j - 1])}

\* re.FindString(occ.Symbol) without its "()." : the leftmost match is the
\* whole run of word characters before the first such position; Empty
\* without a match
FuncNameIn(s) ==
  IF CallAts(s) = {} THEN Empty
  ELSE LET j == CHOOSE x \in CallAts(s) : \A y \in CallAts(s) : x <= y
           i == CHOOSE x \in 1..(j - 1) :
                  /\ \A q \in x..(j - 1) : IsWord(s[q])
                  /\ (x = 1 \/ ~IsWord(s[x - 1]))
       IN SubSeq(s, i, j - 1)

\* the first loop of findUsedFunctions: the function names the consumer uses
RECURSIVE UsedNames(_, _, _)
UsedNames(m, occs, moduleName) ==
  IF occs = <<>> THEN m
  ELSE LET occ == Head(occs)
           funcName == FuncNameIn(occ.Symbol)
       IN UsedNames(IF Contains(occ.Symbol, moduleName) /\ funcName # Empty
                    THEN m \cup {funcName} ELSE m,
                    Tail(occs), moduleName)

\* the second loop of findUsedFunctions: every symbol with documentation puts
\* what the extractor returns, the empty string included
RECURSIVE OldSignatures(_, _)
OldSignatures(m, syms) ==
  IF syms = <<>> THEN m
  ELSE LET sym == Head(syms)
       IN OldSignatures(IF Len(sym.Documentation) > 0
                        THEN m \cup {extractExportedFunctionSignature(sym.Documentation[1])}
                        ELSE m,
                        Tail(syms))

\* findUsedFunctions; the third loop only adds keys to a map[string]struct{},
\* so the order of its ranges does not show in the result
findUsedFunctions(index, oldModuleIndex, moduleName) ==
  LET used == UsedNames({}, Occurrences(index), moduleName)
      oldModuleUsedFunctions == OldSignatures({}, Symbols(oldModuleIndex))
  IN {j \in oldModuleUsedFunctions : \E k \in used : Contains(j, k)}

\* the loop of getAvailableFunctions: sym.Documentation[0] is read without a
\* test of the length, so a symbol without documentation makes the run panic
RECURSIVE AvailableLoop(_, _)
AvailableLoop(functions, syms) ==
  IF syms = <<>> THEN [panic |-> FALSE, functions |-> functions]
  ELSE LET sym == Head(syms)
       IN IF Len(sym.Documentation) = 0
          THEN [panic |-> TRUE, functions |-> functions]
          ELSE LET funcSignature == extractExportedFunctionSignature(sym.Documentation[1])
               IN AvailableLoop(IF funcSignature = Empty THEN functions
                                ELSE functions \cup {funcSignature},
                                Tail(syms))

getAvailableFunctions(index) == AvailableLoop({}, Symbols(index))

LineChangedFunctions == <<"T","h","e"," ","f","o","l","l","o","w","i","n","g"," ","f","u","n","c","t","i","o","n","s"," ","h","a","v","e"," ","b","e","e","n"," ","c","h","a","n","g","e","d"," ","o","r"," ","r","e","m","o","v","e","d",":">>

\* main.go main: the report
ReportFunctions(changedMap, order) ==
  IF Cardinality(DOMAIN changedMap) > 0
  THEN <<LineChangedFunctions>> \o ReportLines(changedMap, order)
  ELSE <<LineNone>>

\* the state of main.go's main when the three indexes have been generated
InitFunctions ==
  /\ pc = "indexed"
  /\ prog = "functions"
  /\ projectIndex \in ConsumerIndexes
  /\ oldIndex \in OldIndexes
  /\ newIndex \in NewIndexes
  /\ tmp = {ProjectDir, OldDir, NewDir}
  /\ deferred = <<NewDir, OldDir, ProjectDir>>
  /\ err = NoErr
  /\ IdleSymbols /\ IdleFunctions /\ IdleExtract /\ IdleOut

\* usedFunctions, err := findUsedFunctions(myIndexPath, oldModuleIndexPath, moduleToUpgrade)
FindUsedFunctions ==
  /\ pc = "indexed"
  /\ prog = "functions"
  /\ usedFunctions' = findUsedFunctions(projectIndex, oldIndex, ModuleName)
  /\ pc' = "used"
  /\ UNCHANGED <<runVars, prog, indexVars, symbolVars, newFunctions, changed, out, extractVars>>

\* the errors findUsedFunctions returns, with a nil map
UsedFunctionsErrors ==
  {"failed to read index file", "failed to unmarshal index",
   "failed to read old module index file", "failed to unmarshal old module index"}

\* findUsedFunctions returns nil, err; main: log.Fatalf("Failed to find used functions")
FindUsedFunctionsFails ==
  /\ pc = "indexed"
  /\ prog = "functions"
  /\ \E e \in UsedFunctionsErrors : Fatalf(e)
  /\ UNCHANGED <<prog, indexVars, symbolVars, functionVars, out, extractVars, tmp, deferred>>

\* newFunctions, err := getAvailableFunctions(newModuleIndexPath)
GetAvailableFunctions ==
  /\ pc = "used"
  /\ prog = "functions"
  /\ ~getAvailableFunctions(newIndex).panic
  /\ newFunctions' = getAvailableFunctions(newIndex).functions
  /\ pc' = "available"
  /\ UNCHANGED <<runVars, prog, indexVars, symbolVars, usedFunctions, changed, out, extractVars>>

\* the index expression panics: the deferred calls of main run, then the
\* process ends with the runtime error
GetAvailableFunctionsPanics ==
  /\ pc = "used"
  /\ prog = "functions"
  /\ getAvailableFunctions(newIndex).panic
  /\ err' = "index out of range [0] with length 0"
  /\ tmp' = tmp \ SetOf(deferred)
  /\ deferred' = <<>>
  /\ pc' = "panic"
  /\ UNCHANGED <<prog, indexVars, symbolVars, functionVars, out, extractVars>>

\* getAvailableFunctions returns nil, err; main: log.Fatalf("Failed to find new functions")
GetAvailableFunctionsFails ==
  /\ pc = "used"
  /\ prog = "functions"
  /\ \E e \in AvailableSymbolsErrors : Fatalf(e)
  /\ UNCHANGED <<prog, indexVars, symbolVars, functionVars, out, extractVars, tmp, deferred>>

\* changed := findChangedFunctions(usedFunctions, newFunctions)
FindChangedFunctions == ChangedFunctionsStep("available", "diffed")

\* the fmt.Println calls that end main
PrintReportFunctions ==
  /\ pc = "diffed"
  /\ prog = "functions"
  /\ \E order \in Orders(DOMAIN changed) : out' = ReportFunctions(changed, order)
  /\ pc' = "done"
  /\ UNCHANGED <<runVars, prog, indexVars, symbolVars, functionVars, extractVars>>

\* main returns: the deferred os.RemoveAll calls run
ReturnFromMainFunctions ==
  /\ pc = "done"
  /\ prog = "functions"
  /\ tmp' = tmp \ SetOf(deferred)
  /\ deferred' = <<>>
  /\ pc' = "exited"
  /\ UNCHANGED <<prog, indexVars, symbolVars, functionVars, out, extractVars, err>>

NextFunctions ==
  \/ FindUsedFunctions \/ FindUsedFunctionsFails
  \/ GetAvailableFunctions \/ GetAvailableFunctionsPanics \/ GetAvailableFunctionsFails
  \/ FindChangedFunctions \/ PrintReportFunctions \/ ReturnFromMainFunctions

SpecFunctions == InitFunctions /\ [][NextFunctions]_vars

\* =================================================================== claims
\* The function name of a signature as the documentation states it: the text
\* between "func " and the first "(".
SigName(fn) ==
  IF Index(fn, KwFuncSp) < 0 THEN Empty
  ELSE Split(Drop(fn, Index(fn, KwFuncSp) + Len(KwFuncSp)), <<"(">>)[1]

\* C2: every used symbol that has no entry for the same symbol in the new
\* table (no equal key in findChangedSymbols, no signature with the same
\* function name in findChangedFunctions) is mapped to "removed".
C2_RemovedDetected ==
  pc = "diffed" =>
    /\ prog = "symbols" =>
         \A k \in DOMAIN usedSymbols :
           k \notin DOMAIN newSymbols =>
             k \in DOMAIN removed /\ removed[k] = Removed
    /\ prog = "functions" =>
         \A u \in usedFunctions :
           (~\E n \in newFunctions : SigName(n) = SigName(u)) =>
             u \in DOMAIN changed /\ changed[u] = Removed

\* C3: an identity that is a key of the usage record and of the new table,
\* with definition lists equal as sets, is a key of neither returned map.
C3_UnchangedSymbol ==
  (pc = "diffed" /\ prog = "symbols") =>
    \A k \in (DOMAIN usedSymbols) \cap (DOMAIN newSymbols) :
      SetOf(usedSymbols[k]) = SetOf(newSymbols[k]) =>
        k \notin DOMAIN added /\ k \notin DOMAIN removed

\* C3 witness: the lists differ as lists (order or duplicates) and agree as
\* sets, so difference was called, and the identity was left out of both maps.
C3_Witness ==
  /\ pc = "diffed" /\ prog = "symbols"
  /\ \E k \in (DOMAIN usedSymbols) \cap (DOMAIN newSymbols) :
       /\ usedSymbols[k] # newSymbols[k]
       /\ SetOf(usedSymbols[k]) = SetOf(newSymbols[k])
       /\ Cardinality(SetOf(usedSymbols[k])) > 1
       /\ k \notin DOMAIN added /\ k \notin DOMAIN removed

\* C4: a used signature that is verbatim in the new set is not a key of the
\* map findChangedFunctions returns, whatever the order of the range.
C4_UnchangedFunction ==
  (pc = "diffed" /\ prog = "functions") =>
    \A u \in usedFunctions \cap newFunctions : u \notin DOMAIN changed

\* C5: a used signature that is not verbatim in the new set, while a new
\* signature has its function name, is mapped to a new signature of that name
\* and not to "removed".
C5_SignatureChange ==
  (pc = "diffed" /\ prog = "functions") =>
    \A u \in usedFunctions :
      (u \notin newFunctions /\ \E n \in newFunctions : SigName(n) = SigName(u)) =>
        /\ u \in DOMAIN changed
        /\ changed[u] \in newFunctions
        /\ SigName(changed[u]) = SigName(u)
        /\ changed[u] # Removed

\* C5 witness: a changed signature was reported as old -> new.
C5_Witness ==
  /\ pc = "diffed" /\ prog = "functions"
  /\ \E u \in usedFunctions :
       /\ u \notin newFunctions
       /\ \E n \in newFunctions : SigName(n) = SigName(u)
       /\ u \in DOMAIN changed /\ changed[u] \in newFunctions

\* C6: an identity of the usage record that no key of the new table contains
\* as a substring is mapped to "removed" in the removed map.
C6_TotalAbsence ==
  (pc = "diffed" /\ prog = "symbols") =>
    \A k \in DOMAIN usedSymbols :
      (\A j \in DOMAIN newSymbols : ~Contains(j, k)) =>
        k \in DOMAIN removed /\ removed[k] = Removed

\* C6 witness: the new table is not empty, none of its keys contains the used
\* identity, and the identity was marked removed.
C6_Witness ==
  /\ pc = "diffed" /\ prog = "symbols"
  /\ DOMAIN newSymbols # {}
  /\ \E k \in DOMAIN usedSymbols :
       /\ \A j \in DOMAIN newSymbols : ~Contains(j, k)
       /\ k \in DOMAIN removed /\ removed[k] = Removed

\* C7 as stated: no identity is a key of both returned maps.
C7_AtMostOneMap ==
  (pc = "diffed" /\ prog = "symbols") =>
    (DOMAIN added) \cap (DOMAIN removed) = {}

\* C7 as amended: an identity is a key of both returned maps exactly when it
\* is a key of the new table, an old definition is missing from the new list
\* and a new definition is missing from the old list.
C7_BothOnSignatureChange ==
  (pc = "diffed" /\ prog = "symbols") =>
    \A k \in DOMAIN usedSymbols :
      (k \in DOMAIN added /\ k \in DOMAIN removed) <=>
        /\ k \in DOMAIN newSymbols
        /\ SetOf(usedSymbols[k]) \ SetOf(newSymbols[k]) # {}
        /\ SetOf(newSymbols[k]) \ SetOf(usedSymbols[k]) # {}

\* C7 witness: an identity is a key of both maps.
C7_Witness ==
  /\ pc = "diffed" /\ prog = "symbols"
  /\ (DOMAIN added) \cap (DOMAIN removed) # {}

\* The name a declaration line declares, by Go's grammar: after "func", an
\* optional receiver in parentheses and then the identifier; after "type" or
\* "var", the identifier.  Empty when the line declares nothing.
RECURSIVE WordPrefix(_)
WordPrefix(s) ==
  IF s # <<>> /\ IsWord(Head(s)) THEN <<Head(s)>> \o WordPrefix(Tail(s)) ELSE <<>>
DeclaredName(line) ==
  LET t == TrimSpace(line)
  IN IF HasPrefix(t, KwFuncSp)
     THEN LET rest == TrimLeft(Drop(t, Len(KwFuncSp)))
              named == IF HasPrefix(rest, <<"(">>) /\ Contains(rest, <<")">>)
                       THEN TrimLeft(Drop(rest, Index(rest, <<")">>) + 1))
                       ELSE rest
          IN WordPrefix(named)
     ELSE IF HasPrefix(t, KwType) THEN WordPrefix(TrimLeft(Drop(t, Len(KwType))))
     ELSE IF HasPrefix(t, KwVar) THEN WordPrefix(TrimLeft(Drop(t, Len(KwVar))))
     ELSE Empty

\* C9: the extractor returns the second line verbatim when the text has at
\* least two lines, the second line contains the func keyword and the declared
\* function name starts with an upper-case letter, and the empty string in
\* every other case.
C9_ExtractorContract ==
  pc = "exported" =>
    LET lines == Split(doc, <<NL>>)
        name == DeclaredName(lines[2])
    IN sig = IF /\ Len(lines) >= 2
                /\ Contains(lines[2], KwFunc)
                /\ name # Empty
                /\ IsUpper(name[1])
             THEN lines[2]
             ELSE Empty

\* The identities the consumer's occurrences parse to: the keys of the
\* candidates findUsedSymbols collects from the occurrences whose descriptor
\* contains the module path.
ConsumerIdentities ==
  DOMAIN UsedCandidates(NoMap, Occurrences(projectIndex), ModuleName)

\* C1: every key of the maps of the diff is the identity of a symbol that
\* some occurrence of the consumer index parses to.
C1_OnlyUsedReported ==
  (prog = "symbols" /\ pc \in {"diffed", "done"}) =>
    \A k \in (DOMAIN added) \cup (DOMAIN removed) : k \in ConsumerIdentities

\* C8: a second run of findUsedSymbols, getAvailableSymbols and
\* findChangedSymbols on the same three indexes, in any order of its ranges
\* over maps, returns the maps this run returned.
C8_Deterministic ==
  (prog = "symbols" /\ pc = "diffed") =>
    LET candidates == UsedCandidates(NoMap, Occurrences(projectIndex), ModuleName)
        oldTable == DefinitionTable(NoMap, Symbols(oldIndex))
        new2 == getAvailableSymbols(newIndex)
    IN \A uo \in PairOrders(DOMAIN candidates, DOMAIN oldTable) :
         LET used2 == Correlate(candidates, oldTable, uo)
         IN \A co \in Orders(DOMAIN used2) :
              findChangedSymbols(used2, new2, co) = [added |-> added, removed |-> removed]

\* C8 witness: the usage record has two identities, so its range has more
\* than one order, and the diff reports something.
C8_Witness ==
  /\ prog = "symbols" /\ pc = "diffed"
  /\ Cardinality(DOMAIN usedSymbols) >= 2
  /\ DOMAIN removed # {}
  /\ DOMAIN added # {}

\* a declaration line of a function whose name starts with a lower-case letter
UnexportedFunction(def) ==
  /\ HasPrefix(TrimSpace(def), KwFuncSp)
  /\ DeclaredName(def) # Empty
  /\ DeclaredName(def)[1] \in Lower

\* C10: a declared function whose name starts with a lower-case letter is in
\* no definition table, and no entry of the diff has it as key or as value.
C10_UnexportedNeverSurfaces ==
  prog = "symbols" =>
    /\ \A k \in DOMAIN usedSymbols : \A i \in 1..Len(usedSymbols[k]) :
         ~UnexportedFunction(usedSymbols[k][i])
    /\ \A k \in DOMAIN newSymbols : \A i \in 1..Len(newSymbols[k]) :
         ~UnexportedFunction(newSymbols[k][i])
    /\ \A k \in DOMAIN added :
         k \notin DOMAIN usedSymbols \/ ~UnexportedFunction(usedSymbols[k][1])
    /\ \A k \in DOMAIN added : ~UnexportedFunction(added[k])
    /\ \A k \in DOMAIN removed :
         k \notin DOMAIN usedSymbols \/ ~UnexportedFunction(usedSymbols[k][1])
    /\ \A k \in DOMAIN removed : ~UnexportedFunction(removed[k])

\* the first element of a, in a's order, that is not an element of b
FirstMissing(a, b) ==
  LET missing == {i \in 1..Len(a) : \A j \in 1..Len(b) : b[j] # a[i]}
  IN IF missing = {} THEN None
     ELSE a[CHOOSE i \in missing : \A j \in missing : i <= j]

\* C12: for an identity k of both the usage record and the new table,
\* removed[k] is set exactly when an old definition is not a new one, to the
\* first such old definition, and added[k] exactly when a new definition is
\* not an old one, to the first such new definition.
C12_DefinitionSetDiff ==
  (pc = "diffed" /\ prog = "symbols") =>
    \A k \in (DOMAIN usedSymbols) \cap (DOMAIN newSymbols) :
      LET firstOld == FirstMissing(usedSymbols[k], newSymbols[k])
          firstNew == FirstMissing(newSymbols[k], usedSymbols[k])
      IN /\ (k \in DOMAIN removed) <=> (firstOld # None)
         /\ (k \in DOMAIN removed) => (removed[k] = firstOld)
         /\ (k \in DOMAIN added) <=> (firstNew # None)
         /\ (k \in DOMAIN added) => (added[k] = firstNew)

\* C12 witness: two old definitions are not new ones, and the one reported is
\* the first of them.
C12_Witness ==
  /\ pc = "diffed" /\ prog = "symbols"
  /\ \E k \in (DOMAIN usedSymbols) \cap (DOMAIN newSymbols) :
       /\ Cardinality(SetOf(usedSymbols[k]) \ SetOf(newSymbols[k])) >= 2
       /\ k \in DOMAIN removed
       /\ removed[k] = usedSymbols[k][1]

DecodeErrors == UsedSymbolsErrors \cup AvailableSymbolsErrors

\* C11: when an index cannot be decoded the function returns no table, main
\* stops, and no line of the report is printed in the run.
C11_DecodeFailureFatal ==
  prog = "symbols" =>
    /\ (err \in DecodeErrors) => (pc = "fatal" /\ out = <<>>)
    /\ (err \in UsedSymbolsErrors) => (usedSymbols = NoMap /\ newSymbols = NoMap)
    /\ (err \in AvailableSymbolsErrors) => (newSymbols = NoMap)
    /\ (out # <<>>) => (err = NoErr)

\* C11 witness: the new index fails to decode after the usage record was built.
C11_Witness ==
  /\ prog = "symbols" /\ pc = "fatal"
  /\ err = "failed to unmarshal index"
  /\ usedSymbols # NoMap

\* C15: when the process has terminated, no temporary directory is left.
C15_TempDirsRemoved ==
  (prog = "symbols" /\ pc \in {"fatal", "exited"}) => (tmp = {})

\* the declared symbols of an index that carry documentation
WithDocs(index) == SelectSeq(Symbols(index), LAMBDA sym : Len(sym.Documentation) > 0)

\* C14: a declared symbol without documentation is skipped: building the old
\* and the new table does not fail, and the tables are the ones built from
\* the symbols that have documentation.
C14_NoDocsSkipped ==
  prog = "functions" =>
    /\ pc # "panic"
    /\ (pc \in {"available", "diffed", "done", "exited"}) =>
         (newFunctions = AvailableLoop({}, WithDocs(newIndex)).functions)

====
